---- MODULE Spec2Model ----
(***************************************************************************)
(* Pedersen commitments, range proofs and stealth addresses of the wallet  *)
(* core (crates/core/src/commitments.rs, crates/core/src/crypto/           *)
(* primitives.rs).                                                         *)
(*                                                                         *)
(* The Ristretto255 group is a cyclic group of prime order l.  It is       *)
(* modelled as the additive group of integers modulo GroupOrder: a point   *)
(* is its discrete logarithm to the base point G, point addition is        *)
(* addition modulo GroupOrder, and a scalar times a point is the product    *)
(* modulo GroupOrder.  u64 is modelled as an unsigned integer of U64Bits   *)
(* bits.  As in the program (2^64 < l / 2), the sum of two u64 values is   *)
(* smaller than the group order.                                           *)
(***************************************************************************)
EXTENDS Integers, Naturals, Sequences, FiniteSets, TLC

VARIABLES
    overflow_checks,  \* build profile: TRUE = arithmetic overflow panics (debug)
    c1, c2,           \* the caller's two Commitment values
    last,             \* the last call: its name, arguments and result
    proof,            \* the caller's RangeProof value
    keyA, keyB,       \* two StealthKeypair values
    output,           \* the last published (ephemeral_public, stealth_public) pair
    pedersen,         \* the PedersenCommitment instance each thread holds
    NEXT_ID,          \* the u64 in the NEXT_ID mutex
    WALLETS,          \* the map in the WALLETS mutex: id -> wallet and its mutex
    mutex,            \* the thread that holds NEXT_ID and WALLETS (0: nobody)
    calls,            \* the FFI call each thread is in, or its last result
    handles           \* the ids of the handles returned so far, in order

\* the state of the FFI layer, and all of the state
ffi_vars == <<NEXT_ID, WALLETS, mutex, calls, handles>>

core_vars == <<overflow_checks, c1, c2, last, proof, keyA, keyB, output, pedersen>>

vars == <<overflow_checks, c1, c2, last, proof, keyA, keyB, output, pedersen, NEXT_ID, WALLETS, mutex, calls, handles>>

---------------------------------------------------------------------------
(* Widths and the group *)

\* width of u64 in the model (64 in the program)
U64Bits == 2

\* order of the scalar field / of the group (l, about 2^252, in the program)
GroupOrder == 7

\* largest blinding scalar a caller passes to commit explicitly
MaxBlinding == 2

\* number of threads that create PedersenCommitment instances
MaxThreads == 2

\* largest number of wallets the registry comes to hold
MaxWallets == 2

\* largest number of proofs, and of commitments, given to verify_batch
MaxBatch == 2

\* largest number of inputs, and of outputs, of a transaction
MaxCommitments == 2

TwoPow(n) == 2 ^ n

U64Max == TwoPow(U64Bits) - 1

U64 == 0 .. U64Max

Scalar == 0 .. (GroupOrder - 1)

RistrettoPoint == 0 .. (GroupOrder - 1)

BlindingInputs == { s \in Scalar : s <= MaxBlinding }

\* Option<T>: None is the empty sequence, Some(x) the one-element sequence
None == << >>

Some(x) == << x >>

IsSome(o) == o # None

Unwrap(o) == o[1]

\* Scalar::from(u64)
ScalarFromU64(v) == v % GroupOrder

ScalarAdd(a, b) == (a + b) % GroupOrder

ScalarSub(a, b) == (a + GroupOrder - b) % GroupOrder

PointAdd(p, q) == (p + q) % GroupOrder

PointSub(p, q) == (p + GroupOrder - q) % GroupOrder

\* scalar * point
PointMul(s, p) == (s * p) % GroupOrder

\* RISTRETTO_BASEPOINT_POINT
RISTRETTO_BASEPOINT_POINT == 1

\* RistrettoPoint::from_uniform_bytes(Sha512("SafeMask-Pedersen-H-Generator-v1")):
\* a fixed generator other than the base point
HGenerator == 3

---------------------------------------------------------------------------
(* PedersenCommitment *)

\* PedersenCommitment::new
\* the threads of the process, and the state in which none holds an instance
Threads == 1 .. MaxThreads

NoInstances == [ t \in Threads |-> None ]

\* new() that draws the second generator anew for every instance
PedersenNew_fresh_h == [ g |-> RISTRETTO_BASEPOINT_POINT, h |-> (HGenerator + Cardinality({ t \in Threads : IsSome(pedersen[t]) })) % GroupOrder ]

PedersenNew == [ g |-> RISTRETTO_BASEPOINT_POINT, h |-> HGenerator ]

\* PedersenCommitment::commit
commit(self, value, blinding) ==
    [ point    |-> PointAdd(PointMul(ScalarFromU64(value), self.g),
                            PointMul(blinding, self.h)),
      value    |-> Some(value),
      blinding |-> Some(blinding) ]

\* verify_opening that recomputes the commitment without the blinding factor
verify_opening_no_blinding(self, commitment, value, blinding) ==
    commitment.point = commit(self, value, 0).point

\* PedersenCommitment::verify_opening
verify_opening(self, commitment, value, blinding) ==
    commitment.point = commit(self, value, blinding).point

\* u64 + u64 overflows
AddOverflows(v1, v2) == v1 + v2 > U64Max

\* u64 + u64 in a build without overflow checks
WrappingAdd(v1, v2) == (v1 + v2) % TwoPow(U64Bits)

\* a subtraction that wraps instead of reporting the underflow
wrapping_sub(v1, v2) == Some((v1 - v2) % TwoPow(U64Bits))

\* u64::checked_sub
checked_sub(v1, v2) == IF v1 >= v2 THEN Some(v1 - v2) ELSE None

\* add_commitments that counts an absent value as zero
add_commitments_none_as_zero(a, b) ==
    [ point    |-> PointAdd(a.point, b.point),
      value    |-> Some(WrappingAdd(IF IsSome(a.value) THEN Unwrap(a.value) ELSE 0,
                                    IF IsSome(b.value) THEN Unwrap(b.value) ELSE 0)),
      blinding |-> IF IsSome(a.blinding) /\ IsSome(b.blinding)
                   THEN Some(ScalarAdd(Unwrap(a.blinding), Unwrap(b.blinding)))
                   ELSE None ]

\* PedersenCommitment::add_commitments, when `v1 + v2` does not panic
add_commitments(a, b) ==
    [ point    |-> PointAdd(a.point, b.point),
      value    |-> IF IsSome(a.value) /\ IsSome(b.value)
                   THEN Some(WrappingAdd(Unwrap(a.value), Unwrap(b.value)))
                   ELSE None,
      blinding |-> IF IsSome(a.blinding) /\ IsSome(b.blinding)
                   THEN Some(ScalarAdd(Unwrap(a.blinding), Unwrap(b.blinding)))
                   ELSE None ]

\* `v1 + v2` in add_commitments panics: both values present, the sum
\* overflows u64 and the build checks overflow
AddPanics(checks, a, b) ==
    /\ checks
    /\ IsSome(a.value) /\ IsSome(b.value)
    /\ AddOverflows(Unwrap(a.value), Unwrap(b.value))

\* subtract_commitments with the point operands the wrong way round
subtract_commitments_swapped(a, b) ==
    [ point    |-> PointSub(b.point, a.point),
      value    |-> IF IsSome(a.value) /\ IsSome(b.value)
                   THEN checked_sub(Unwrap(a.value), Unwrap(b.value))
                   ELSE None,
      blinding |-> IF IsSome(a.blinding) /\ IsSome(b.blinding)
                   THEN Some(ScalarSub(Unwrap(a.blinding), Unwrap(b.blinding)))
                   ELSE None ]

\* PedersenCommitment::subtract_commitments
subtract_commitments(a, b) ==
    [ point    |-> PointSub(a.point, b.point),
      value    |-> IF IsSome(a.value) /\ IsSome(b.value)
                   THEN checked_sub(Unwrap(a.value), Unwrap(b.value))
                   ELSE None,
      blinding |-> IF IsSome(a.blinding) /\ IsSome(b.blinding)
                   THEN Some(ScalarSub(Unwrap(a.blinding), Unwrap(b.blinding)))
                   ELSE None ]

\* add_commitments folded over a non-empty list, left to right:
\* Some(sum), or None when one of the additions panics
RECURSIVE FoldAdd(_, _, _)
FoldAdd(checks, acc, rest) ==
    IF rest = << >>
    THEN Some(acc)
    ELSE IF AddPanics(checks, acc, Head(rest))
         THEN None
         ELSE FoldAdd(checks, add_commitments(acc, Head(rest)), Tail(rest))

---------------------------------------------------------------------------
(* Commitment and its wire encoding *)

\* Commitment::from_point
\* from_point that fills the secret fields with the zero opening
from_point_zero_opening(point) == [ point |-> point, value |-> Some(0), blinding |-> Some(0) ]

from_point(point) == [ point |-> point, value |-> None, blinding |-> None ]

\* the 32-byte strings of the model: GroupOrder of them are the canonical
\* encodings of the points, the others (among them the largest, all-0xFF)
\* decode to nothing
Bytes32 == 0 .. (GroupOrder + 1)

\* RistrettoPoint::compress().to_bytes(): injective, the identity encodes as
\* the all-zero string
compress(point) == (3 * point) % GroupOrder

\* decompress that returns the negated point
decompress_negated(bytes) ==
    IF \E p \in RistrettoPoint : compress(p) = bytes
    THEN Some((GroupOrder - (CHOOSE p \in RistrettoPoint : compress(p) = bytes)) % GroupOrder)
    ELSE None

\* CompressedRistretto::decompress: the point with this canonical encoding
decompress(bytes) ==
    IF \E p \in RistrettoPoint : compress(p) = bytes
    THEN Some(CHOOSE p \in RistrettoPoint : compress(p) = bytes)
    ELSE None

\* to_bytes that also encodes whether the value is present
to_bytes_with_value(c) == (compress(c.point) + (IF IsSome(c.value) THEN 1 ELSE 0)) % GroupOrder

\* Commitment::to_bytes
to_bytes(c) == compress(c.point)

\* from_bytes that reduces the bytes to a point instead of rejecting them
from_bytes_unchecked(bytes) == [ ok |-> TRUE, err |-> "", val |-> Some(from_point(bytes % GroupOrder)) ]

\* Commitment::from_bytes: Ok(commitment) or Err(CoreError::Commitment)
from_bytes(bytes) ==
    IF IsSome(decompress(bytes))
    THEN [ ok |-> TRUE,  err |-> "",           val |-> Some(from_point(Unwrap(decompress(bytes)))) ]
    ELSE [ ok |-> FALSE, err |-> "Commitment", val |-> None ]

---------------------------------------------------------------------------
(* RangeProof *)

\* vec![0u8; 672], the proof bytes prove() returns, and some other byte string
ZeroProofBytes == "zeros672"

ProofBytes == { ZeroProofBytes, "other" }

\* the bit lengths a caller asks for: below, at and above the width of u64
BitLengths == 0 .. (U64Bits + 1)

\* struct RangeProof { proof_bytes, bit_length }: every value of the type
RangeProofs == [ proof_bytes : ProofBytes, bit_length : BitLengths ]

\* prove that rejects bit lengths above the width of u64
prove_rejects_wide(value, blinding, bit_length) ==
    IF bit_length > U64Bits \/ (bit_length < U64Bits /\ value >= TwoPow(bit_length))
    THEN [ ok |-> FALSE, err |-> "InvalidParameter", val |-> None ]
    ELSE [ ok |-> TRUE, err |-> "",
           val |-> Some([ proof_bytes |-> ZeroProofBytes,
                          bit_length  |-> bit_length ]) ]

\* prove that accepts the first value out of range
prove_off_by_one(value, blinding, bit_length) ==
    IF bit_length < U64Bits /\ value > TwoPow(bit_length)
    THEN [ ok |-> FALSE, err |-> "InvalidParameter", val |-> None ]
    ELSE [ ok |-> TRUE, err |-> "",
           val |-> Some([ proof_bytes |-> ZeroProofBytes,
                          bit_length  |-> bit_length ]) ]

\* RangeProof::prove: Ok(proof) or Err(CoreError::InvalidParameter)
prove(value, blinding, bit_length) ==
    IF bit_length < U64Bits /\ value >= TwoPow(bit_length)
    THEN [ ok |-> FALSE, err |-> "InvalidParameter", val |-> None ]
    ELSE [ ok |-> TRUE, err |-> "",
           val |-> Some([ proof_bytes |-> ZeroProofBytes,
                          bit_length  |-> bit_length ]) ]

\* RangeProof::verify
verify(self, commitment) == TRUE


\* Iterator::zip stops at the end of the shorter of the two slices
ZipLen(proofs, commitments) ==
    IF Len(proofs) <= Len(commitments) THEN Len(proofs) ELSE Len(commitments)

\* verify_batch that pairs the slices without comparing their lengths
verify_batch_zip_only(proofs, commitments) ==
    \A i \in 1 .. ZipLen(proofs, commitments) : verify(proofs[i], commitments[i])

\* verify_batch that accepts when some pair verifies
verify_batch_any(proofs, commitments) ==
    IF Len(proofs) # Len(commitments)
    THEN FALSE
    ELSE \E i \in 1 .. ZipLen(proofs, commitments) : verify(proofs[i], commitments[i])

\* RangeProof::verify_batch
verify_batch(proofs, commitments) ==
    IF Len(proofs) # Len(commitments)
    THEN FALSE
    ELSE \A i \in 1 .. ZipLen(proofs, commitments) : verify(proofs[i], commitments[i])

\* BalanceCommitment::new with a range proof one bit narrower than u64
BalanceCommitment_new_narrow(balance, blinding) ==
    LET commitment  == commit(PedersenNew, balance, blinding)
        range_proof == prove(balance, blinding, U64Bits - 1)
    IN  IF range_proof.ok
        THEN [ ok |-> TRUE, err |-> "",
               val |-> Some([ commitment  |-> commitment,
                              range_proof |-> Unwrap(range_proof.val) ]) ]
        ELSE [ ok |-> FALSE, err |-> range_proof.err, val |-> None ]

\* BalanceCommitment::new: Ok(balance commitment), or the error of prove
BalanceCommitment_new(balance, blinding) ==
    LET commitment  == commit(PedersenNew, balance, blinding)
        range_proof == prove(balance, blinding, U64Bits)
    IN  IF range_proof.ok
        THEN [ ok |-> TRUE, err |-> "",
               val |-> Some([ commitment  |-> commitment,
                              range_proof |-> Unwrap(range_proof.val) ]) ]
        ELSE [ ok |-> FALSE, err |-> range_proof.err, val |-> None ]

\* BalanceCommitment::verify
BalanceCommitment_verify(self) == verify(self.range_proof, self.commitment)

---------------------------------------------------------------------------
(* Stealth addresses *)

\* blake2b: a fixed function from byte strings to 64-byte digests
blake2b(data) == (data * data * data + 2 * data + 5) % (4 * GroupOrder + 1)

\* Scalar::from_bytes_mod_order_wide
from_bytes_mod_order_wide(hash) == hash % GroupOrder

\* Scalar::from_bytes_mod_order_wide(&blake2b(shared_secret.compress().as_bytes()))
HashToScalar(shared_secret) ==
    from_bytes_mod_order_wide(blake2b(compress(shared_secret)))

\* StealthKeypair::generate, for the two scalars Scalar::random returns
generate(spend_private, view_private) ==
    [ spend_private |-> spend_private,
      spend_public  |-> PointMul(spend_private, RISTRETTO_BASEPOINT_POINT),
      view_private  |-> view_private,
      view_public   |-> PointMul(view_private, RISTRETTO_BASEPOINT_POINT) ]

\* derive_stealth_address that takes the shared secret from the spend key
derive_stealth_address_spend_secret(recipient_spend_public, recipient_view_public, ephemeral_private) ==
    LET ephemeral_public == PointMul(ephemeral_private, RISTRETTO_BASEPOINT_POINT)
        shared_secret    == PointMul(ephemeral_private, recipient_spend_public)
        hash_scalar      == HashToScalar(shared_secret)
    IN  [ ephemeral_public  |-> ephemeral_public,
          stealth_public    |-> PointAdd(PointMul(hash_scalar, RISTRETTO_BASEPOINT_POINT),
                                         recipient_spend_public),
          ephemeral_private |-> ephemeral_private ]

\* StealthKeypair::derive_stealth_address, for the ephemeral scalar
\* Scalar::random returns
derive_stealth_address(recipient_spend_public, recipient_view_public, ephemeral_private) ==
    LET ephemeral_public == PointMul(ephemeral_private, RISTRETTO_BASEPOINT_POINT)
        shared_secret    == PointMul(ephemeral_private, recipient_view_public)
        hash_scalar      == HashToScalar(shared_secret)
    IN  [ ephemeral_public  |-> ephemeral_public,
          stealth_public    |-> PointAdd(PointMul(hash_scalar, RISTRETTO_BASEPOINT_POINT),
                                         recipient_spend_public),
          ephemeral_private |-> ephemeral_private ]

\* scan_stealth_address that returns the hash scalar as the one-time key
scan_stealth_address_hash_only(self, ephemeral_public, stealth_public) ==
    LET shared_secret   == PointMul(self.view_private, ephemeral_public)
        hash_scalar     == HashToScalar(shared_secret)
        expected_public == PointAdd(PointMul(hash_scalar, RISTRETTO_BASEPOINT_POINT),
                                    self.spend_public)
    IN  IF expected_public = stealth_public
        THEN Some(hash_scalar)
        ELSE None

\* scan_stealth_address that does not compare the expected public key
scan_stealth_address_unchecked(self, ephemeral_public, stealth_public) ==
    LET shared_secret == PointMul(self.view_private, ephemeral_public)
        hash_scalar   == HashToScalar(shared_secret)
    IN  Some(ScalarAdd(hash_scalar, self.spend_private))

\* StealthKeypair::scan_stealth_address
scan_stealth_address(self, ephemeral_public, stealth_public) ==
    LET shared_secret   == PointMul(self.view_private, ephemeral_public)
        hash_scalar     == HashToScalar(shared_secret)
        expected_public == PointAdd(PointMul(hash_scalar, RISTRETTO_BASEPOINT_POINT),
                                    self.spend_public)
    IN  IF expected_public = stealth_public
        THEN Some(ScalarAdd(hash_scalar, self.spend_private))
        ELSE None

---------------------------------------------------------------------------
(* The FFI wallet registry (crates/ffi/src/lib.rs) *)

\* the calls that create a wallet, and the calls that use one
CreationOps == { "create_wallet", "import_private_key" }

WalletOps ==
    { "get_wallet_info", "create_transaction", "sign_transaction",
      "generate_stealth_address", "export_private_key", "export_view_key" }

\* the handle ids a caller may pass: ids of wallets and ids of none
HandleIds == 1 .. (MaxWallets + 1)

\* the error of a creation call whose wallet constructor fails
CreationError(op) ==
    IF op = "create_wallet" THEN "InvalidMnemonic" ELSE "InvalidPassword"

\* the errors the wallet's method can make a call return (none for
\* get_wallet_info, which falls back to defaults)
WalletOpErrors(op) ==
    CASE op = "get_wallet_info"    -> { }
      [] op = "create_transaction" -> { "InsufficientFunds" }
      [] op = "sign_transaction"   -> { "InvalidSignature" }
      [] OTHER                     -> { "KeyDerivationFailed" }

\* creation with the increment of the counter left out
IncrementNextId_forgotten(next_id) == next_id

\* *next_id += 1
IncrementNextId(next_id) == next_id + 1

\* create_wallet that locks WALLETS before NEXT_ID
LockOrder_create_wallet_reversed(op) ==
    CASE op = "create_wallet" -> << "WALLETS", "NEXT_ID" >>
      [] op = "import_private_key" -> << "NEXT_ID", "WALLETS" >>
      [] OTHER -> << "WALLETS", "wallet" >>

\* the mutexes a call locks, in the order of its lock() calls; "wallet" is
\* the mutex of the wallet the handle names
LockOrder(op) ==
    IF op \in CreationOps
    THEN << "NEXT_ID", "WALLETS" >>
    ELSE << "WALLETS", "wallet" >>

\* a thread that is in no call and has made none; in a call, op is the
\* function called, id the handle id it was given or took from the counter,
\* locked_wallet whether it has locked a wallet; result is what the last
\* call returned
NoFfiCall == [ pc |-> "idle", op |-> "none", id |-> 0, result |-> "none",
               locked_wallet |-> FALSE ]

\* lazy_static: an empty map, the counter at 1, nothing locked
InitRegistry ==
    /\ NEXT_ID = 1
    /\ WALLETS = << >>
    /\ mutex = [ m \in { "NEXT_ID", "WALLETS" } |-> 0 ]
    /\ calls = [ t \in Threads |-> NoFfiCall ]
    /\ handles = << >>

---------------------------------------------------------------------------
(* The calls a user of the commitment engine makes *)

NoCommitment == from_point(0)

NoRangeProof == [ proof_bytes |-> "other", bit_length |-> 0 ]

\* the caller's RangeProof and the (value, blinding) it was proved for;
\* origin is None for a proof prove() did not return
NoProof == [ rp |-> NoRangeProof, origin |-> None ]

NoKeypair == [ spend_private |-> 0, spend_public |-> 0,
               view_private  |-> 0, view_public  |-> 0 ]

NoOutput == [ ephemeral_public |-> 0, stealth_public |-> 0,
              ephemeral_private |-> 0, recipient |-> "none" ]

\* the record of a call: op its name; x, y the commitment arguments; v, b, n
\* the value, scalar and bit-length arguments; p the RangeProof argument;
\* who the keypair it was called on; out the commitment or scalar returned
\* (None: nothing was returned); ret a boolean result; err the error of a
\* failed call; panicked whether the call panicked; ps, cs, ds the lists of
\* proofs and of commitments it was given
NoCall ==
    [ op |-> "none", x |-> NoCommitment, y |-> NoCommitment,
      v |-> 0, b |-> 0, n |-> 0, p |-> NoProof, who |-> "none",
      out |-> None, ret |-> FALSE, err |-> "", panicked |-> FALSE,
      ps |-> << >>, cs |-> << >>, ds |-> << >> ]

\* let c2 = pedersen.commit(value, &blinding)
Commit(value, blinding) ==
    LET c == commit(PedersenNew, value, blinding) IN
    /\ c2' = c
    /\ last' = [ NoCall EXCEPT !.op = "commit", !.v = value, !.b = blinding,
                               !.out = Some(c) ]
    /\ UNCHANGED <<ffi_vars, pedersen, overflow_checks, c1, proof, keyA, keyB, output>>

\* let (c2, blinding) = pedersen.commit_with_random_blinding(value)
CommitWithRandomBlinding(value) ==
    \E blinding \in Scalar :
        LET c == commit(PedersenNew, value, blinding) IN
        /\ c2' = c
        /\ last' = [ NoCall EXCEPT !.op = "commit_with_random_blinding",
                                   !.v = value, !.b = blinding, !.out = Some(c) ]
        /\ UNCHANGED <<ffi_vars, pedersen, overflow_checks, c1, proof, keyA, keyB, output>>

\* let c2 = Commitment::from_bytes(&bytes)?
FromBytes(bytes) ==
    LET r == from_bytes(bytes) IN
    /\ c2' = IF r.ok THEN Unwrap(r.val) ELSE c2
    /\ last' = [ NoCall EXCEPT !.op = "from_bytes", !.v = bytes,
                               !.out = r.val, !.ret = r.ok, !.err = r.err ]
    /\ UNCHANGED <<ffi_vars, pedersen, overflow_checks, c1, proof, keyA, keyB, output>>

\* let c2 = Commitment::from_point(point)
FromPoint(point) ==
    LET c == from_point(point) IN
    /\ c2' = c
    /\ last' = [ NoCall EXCEPT !.op = "from_point", !.v = point, !.out = Some(c) ]
    /\ UNCHANGED <<ffi_vars, pedersen, overflow_checks, c1, proof, keyA, keyB, output>>

\* let bytes = c1.to_bytes()
ToBytes ==
    /\ last' = [ NoCall EXCEPT !.op = "to_bytes", !.x = c1, !.v = to_bytes(c1) ]
    /\ UNCHANGED <<ffi_vars, pedersen, overflow_checks, c1, c2, proof, keyA, keyB, output>>

\* let c1 = PedersenCommitment::add_commitments(&c1, &c2)
AddCommitments ==
    IF AddPanics(overflow_checks, c1, c2)
    THEN /\ last' = [ NoCall EXCEPT !.op = "add_commitments", !.x = c1,
                                    !.y = c2, !.panicked = TRUE ]
         /\ UNCHANGED <<ffi_vars, pedersen, overflow_checks, c1, c2, proof, keyA, keyB, output>>
    ELSE LET c == add_commitments(c1, c2) IN
         /\ c1' = c
         /\ last' = [ NoCall EXCEPT !.op = "add_commitments", !.x = c1,
                                    !.y = c2, !.out = Some(c) ]
         /\ UNCHANGED <<ffi_vars, pedersen, overflow_checks, c2, proof, keyA, keyB, output>>

\* let c1 = PedersenCommitment::subtract_commitments(&c1, &c2)
SubtractCommitments ==
    LET c == subtract_commitments(c1, c2) IN
    /\ c1' = c
    /\ last' = [ NoCall EXCEPT !.op = "subtract_commitments", !.x = c1,
                               !.y = c2, !.out = Some(c) ]
    /\ UNCHANGED <<ffi_vars, pedersen, overflow_checks, c2, proof, keyA, keyB, output>>

\* pedersen.verify_opening(&c2, value, &blinding)
VerifyOpening(value, blinding) ==
    /\ last' = [ NoCall EXCEPT !.op = "verify_opening", !.x = c2,
                               !.v = value, !.b = blinding,
                               !.ret = verify_opening(PedersenNew, c2, value,
                                                      blinding) ]
    /\ UNCHANGED <<ffi_vars, pedersen, overflow_checks, c1, c2, proof, keyA, keyB, output>>

\* let proof = RangeProof::prove(value, &blinding, bit_length)?
Prove(value, blinding, bit_length) ==
    LET r == prove(value, blinding, bit_length) IN
    /\ proof' = IF r.ok
                THEN [ rp |-> Unwrap(r.val), origin |-> Some(<<value, blinding>>) ]
                ELSE proof
    /\ last' = [ NoCall EXCEPT !.op = "prove", !.v = value, !.b = blinding,
                               !.n = bit_length, !.ret = r.ok, !.err = r.err,
                               !.p = IF r.ok THEN proof' ELSE NoProof ]
    /\ UNCHANGED <<ffi_vars, pedersen, overflow_checks, c1, c2, keyA, keyB, output>>

\* let proof = RangeProof { proof_bytes, bit_length }: a proof built from its
\* public fields or received from a peer
ReceiveProof(rp) ==
    /\ proof' = [ rp |-> rp, origin |-> None ]
    /\ last' = [ NoCall EXCEPT !.op = "RangeProof", !.p = proof' ]
    /\ UNCHANGED <<ffi_vars, pedersen, overflow_checks, c1, c2, keyA, keyB, output>>

\* proof.verify(&c2)
Verify ==
    /\ last' = [ NoCall EXCEPT !.op = "verify", !.x = c2, !.p = proof,
                               !.ret = verify(proof.rp, c2) ]
    /\ UNCHANGED <<ffi_vars, pedersen, overflow_checks, c1, c2, proof, keyA, keyB, output>>

\* the lists of at most MaxBatch elements of S
Batches(S) == UNION { [ 1 .. n -> S ] : n \in 0 .. MaxBatch }

\* RangeProof::verify_batch(&proofs, &commitments)
VerifyBatch(proofs, commitments) ==
    /\ last' = [ NoCall EXCEPT !.op = "verify_batch", !.ps = proofs,
                               !.cs = commitments,
                               !.ret = verify_batch(proofs, commitments) ]
    /\ UNCHANGED <<ffi_vars, pedersen, overflow_checks, c1, c2, proof, keyA, keyB, output>>

\* let BalanceCommitment { commitment: c2, range_proof: proof } =
\*     BalanceCommitment::new(balance, &blinding)?
NewBalanceCommitment(balance, blinding) ==
    LET r == BalanceCommitment_new(balance, blinding) IN
    /\ c2' = IF r.ok THEN Unwrap(r.val).commitment ELSE c2
    /\ proof' = IF r.ok
                THEN [ rp |-> Unwrap(r.val).range_proof,
                       origin |-> Some(<<balance, blinding>>) ]
                ELSE proof
    /\ last' = [ NoCall EXCEPT !.op = "BalanceCommitment::new", !.v = balance,
                               !.b = blinding, !.ret = r.ok, !.err = r.err,
                               !.p = IF r.ok THEN proof' ELSE NoProof ]
    /\ UNCHANGED <<ffi_vars, pedersen, overflow_checks, c1, keyA, keyB, output>>

\* BalanceCommitment { commitment: c2, range_proof: proof }.verify()
VerifyBalanceCommitment ==
    LET self == [ commitment |-> c2, range_proof |-> proof.rp ] IN
    /\ last' = [ NoCall EXCEPT !.op = "BalanceCommitment::verify", !.x = c2,
                               !.p = proof,
                               !.ret = BalanceCommitment_verify(self) ]
    /\ UNCHANGED <<ffi_vars, pedersen, overflow_checks, c1, c2, proof, keyA, keyB, output>>

FreshCommitments ==
    { commit(PedersenNew, v, b) : v \in U64, b \in BlindingInputs }

(* The commitment algebra: commitments are made, decoded, added, subtracted *)

Init ==
    /\ InitRegistry
    /\ pedersen = NoInstances
    /\ overflow_checks \in BOOLEAN
    /\ c1 \in FreshCommitments
    /\ c2 \in FreshCommitments
    /\ last = NoCall
    /\ proof = NoProof
    /\ keyA = NoKeypair
    /\ keyB = NoKeypair
    /\ output = NoOutput

Next ==
    \/ \E v \in U64, b \in BlindingInputs : Commit(v, b)
    \/ \E v \in U64 : CommitWithRandomBlinding(v)
    \/ \E bytes \in Bytes32 : FromBytes(bytes)
    \/ ToBytes
    \/ AddCommitments
    \/ SubtractCommitments

Spec == Init /\ [][Next]_vars

(* Openings: commitments are made or decoded, and opened *)

InitOpening ==
    /\ InitRegistry
    /\ pedersen = NoInstances
    /\ overflow_checks = FALSE
    /\ c1 = commit(PedersenNew, 0, 0)
    /\ c2 \in FreshCommitments
    /\ last = NoCall
    /\ proof = NoProof
    /\ keyA = NoKeypair
    /\ keyB = NoKeypair
    /\ output = NoOutput

NextOpening ==
    \/ \E v \in U64, b \in BlindingInputs : Commit(v, b)
    \/ \E v \in U64 : CommitWithRandomBlinding(v)
    \/ \E bytes \in Bytes32 : FromBytes(bytes)
    \/ \E point \in RistrettoPoint : FromPoint(point)
    \/ \E v \in U64, b \in Scalar : VerifyOpening(v, b)

SpecOpening == InitOpening /\ [][NextOpening]_vars

(* Range proofs: commitments are made, proofs are made or received, and *)
(* verified                                                             *)

\* a commitment and the 64-bit range proof made for its value and blinding
InitRange ==
    /\ InitRegistry
    /\ pedersen = NoInstances
    /\ overflow_checks = FALSE
    /\ c1 = commit(PedersenNew, 0, 0)
    /\ \E v \in U64, b \in BlindingInputs :
          /\ c2 = commit(PedersenNew, v, b)
          /\ proof = [ rp |-> Unwrap(prove(v, b, U64Bits).val),
                       origin |-> Some(<<v, b>>) ]
    /\ last = NoCall
    /\ keyA = NoKeypair
    /\ keyB = NoKeypair
    /\ output = NoOutput

NextRange ==
    \/ \E v \in U64, b \in BlindingInputs : Commit(v, b)
    \/ \E v \in U64, b \in BlindingInputs, n \in BitLengths : Prove(v, b, n)
    \/ \E rp \in RangeProofs : ReceiveProof(rp)
    \/ Verify
    \/ \E balance \in U64, b \in BlindingInputs : NewBalanceCommitment(balance, b)
    \/ VerifyBalanceCommitment

SpecRange == InitRange /\ [][NextRange]_vars

(* Batches: commitments are made, proofs are received, and lists of them *)
(* are verified together                                                 *)

NextBatch ==
    \/ \E v \in U64, b \in BlindingInputs : Commit(v, b)
    \/ \E rp \in RangeProofs : ReceiveProof(rp)
    \/ \E proofs \in Batches({proof.rp, NoRangeProof}),
          commitments \in Batches({c1, c2}) : VerifyBatch(proofs, commitments)

SpecBatch == InitRange /\ [][NextBatch]_vars

(* The balance equation: the inputs of a transaction are summed, then its *)
(* outputs, and the two points are compared                               *)

\* the non-empty lists of at most MaxCommitments commitments
CommitmentLists ==
    UNION { [ 1 .. n -> FreshCommitments ] : n \in 1 .. MaxCommitments }

\* let sum_inputs = the inputs folded with add_commitments
SumInputs ==
    LET sum_inputs == FoldAdd(overflow_checks, Head(last.cs), Tail(last.cs))
    IN  /\ last.op = "transaction"
        /\ c1' = IF IsSome(sum_inputs) THEN Unwrap(sum_inputs) ELSE c1
        /\ last' = [ last EXCEPT !.op = "sum_inputs",
                                 !.panicked = ~IsSome(sum_inputs) ]
        /\ UNCHANGED <<ffi_vars, pedersen, overflow_checks, c2, proof, keyA, keyB, output>>

\* let sum_outputs = the outputs folded with add_commitments;
\* sum_inputs.point == sum_outputs.point
SumOutputs ==
    LET sum_outputs == FoldAdd(overflow_checks, Head(last.ds), Tail(last.ds))
    IN  /\ last.op = "sum_inputs"
        /\ ~last.panicked
        /\ c2' = IF IsSome(sum_outputs) THEN Unwrap(sum_outputs) ELSE c2
        /\ last' = [ last EXCEPT !.op = "sum_outputs",
                                 !.panicked = ~IsSome(sum_outputs),
                                 !.ret = IsSome(sum_outputs)
                                         /\ c1.point = Unwrap(sum_outputs).point ]
        /\ UNCHANGED <<ffi_vars, pedersen, overflow_checks, c1, proof, keyA, keyB, output>>

\* a transaction with its input and its output commitments, not yet summed
InitTransaction ==
    /\ InitRegistry
    /\ pedersen = NoInstances
    /\ overflow_checks \in BOOLEAN
    /\ c1 = NoCommitment
    /\ c2 = NoCommitment
    /\ \E inputs \in CommitmentLists, outputs \in CommitmentLists :
           last = [ NoCall EXCEPT !.op = "transaction",
                                  !.cs = inputs, !.ds = outputs ]
    /\ proof = NoProof
    /\ keyA = NoKeypair
    /\ keyB = NoKeypair
    /\ output = NoOutput

NextTransaction ==
    \/ SumInputs
    \/ SumOutputs

SpecTransaction == InitTransaction /\ [][NextTransaction]_vars

(* Instances: threads create PedersenCommitment instances, commit with *)
(* them and open commitments with them                                 *)

\* let pedersen = PedersenCommitment::new(), in thread t; default() and
\* BalanceCommitment::new call the same constructor
New(t) ==
    /\ pedersen' = [ pedersen EXCEPT ![t] = Some(PedersenNew) ]
    /\ last' = [ NoCall EXCEPT !.op = "new", !.n = t ]
    /\ UNCHANGED <<ffi_vars, overflow_checks, c1, c2, proof, keyA, keyB, output>>

\* let c2 = pedersen.commit(value, &blinding), in thread t
CommitBy(t, value, blinding) ==
    /\ IsSome(pedersen[t])
    /\ LET c == commit(Unwrap(pedersen[t]), value, blinding) IN
       /\ c2' = c
       /\ last' = [ NoCall EXCEPT !.op = "commit", !.n = t, !.v = value,
                                  !.b = blinding, !.out = Some(c) ]
    /\ UNCHANGED <<ffi_vars, pedersen, overflow_checks, c1, proof, keyA, keyB, output>>

\* pedersen.verify_opening(&c2, value, &blinding), in thread t
VerifyOpeningBy(t, value, blinding) ==
    /\ IsSome(pedersen[t])
    /\ last' = [ NoCall EXCEPT !.op = "verify_opening", !.n = t, !.x = c2,
                               !.v = value, !.b = blinding,
                               !.ret = verify_opening(Unwrap(pedersen[t]), c2,
                                                      value, blinding) ]
    /\ UNCHANGED <<ffi_vars, pedersen, overflow_checks, c1, c2, proof, keyA, keyB, output>>

InitInstances ==
    /\ InitRegistry
    /\ pedersen = NoInstances
    /\ overflow_checks = FALSE
    /\ c1 = NoCommitment
    /\ c2 = NoCommitment
    /\ last = NoCall
    /\ proof = NoProof
    /\ keyA = NoKeypair
    /\ keyB = NoKeypair
    /\ output = NoOutput

NextInstances ==
    \/ \E t \in Threads : New(t)
    \/ \E t \in Threads, v \in U64, b \in BlindingInputs : CommitBy(t, v, b)
    \/ \E t \in Threads, v \in U64, b \in BlindingInputs : VerifyOpeningBy(t, v, b)

SpecInstances == InitInstances /\ [][NextInstances]_vars

(* Stealth addresses: a sender derives a one-time address for one of two *)
(* keypairs and each keypair scans it                                     *)

Keypairs == { generate(s, v) : s \in Scalar, v \in Scalar }

Owners == { "A", "B" }

KeyOf(who) == IF who = "A" THEN keyA ELSE keyB

\* let (ephemeral_public, stealth_public, _) =
\*     StealthKeypair::derive_stealth_address(&k.spend_public, &k.view_public)
DeriveStealthAddress(recipient) ==
    \E ephemeral_private \in Scalar :
        LET k == KeyOf(recipient)
            r == derive_stealth_address(k.spend_public, k.view_public,
                                        ephemeral_private)
        IN  /\ output' = [ ephemeral_public  |-> r.ephemeral_public,
                           stealth_public    |-> r.stealth_public,
                           ephemeral_private |-> r.ephemeral_private,
                           recipient         |-> recipient ]
            /\ last' = [ NoCall EXCEPT !.op = "derive_stealth_address",
                                       !.who = recipient ]
            /\ UNCHANGED <<ffi_vars, pedersen, overflow_checks, c1, c2, proof, keyA, keyB>>

\* k.scan_stealth_address(&ephemeral_public, &stealth_public)
ScanStealthAddress(who) ==
    /\ output.recipient # "none"
    /\ last' = [ NoCall EXCEPT !.op = "scan_stealth_address", !.who = who,
                     !.out = scan_stealth_address(KeyOf(who),
                                                  output.ephemeral_public,
                                                  output.stealth_public) ]
    /\ UNCHANGED <<ffi_vars, pedersen, overflow_checks, c1, c2, proof, keyA, keyB, output>>

InitStealth ==
    /\ InitRegistry
    /\ pedersen = NoInstances
    /\ overflow_checks = FALSE
    /\ c1 = commit(PedersenNew, 0, 0)
    /\ c2 = commit(PedersenNew, 0, 0)
    /\ last = NoCall
    /\ proof = NoProof
    /\ keyA \in Keypairs
    /\ keyB \in Keypairs
    /\ output = NoOutput

NextStealth ==
    \/ \E recipient \in Owners : DeriveStealthAddress(recipient)
    \/ \E who \in Owners : ScanStealthAddress(who)

SpecStealth == InitStealth /\ [][NextStealth]_vars

(* Scanning: a keypair scans outputs that anyone published, derived for it *)
(* or not                                                                 *)

\* an (ephemeral_public, stealth_public) pair read from the chain, of unknown
\* origin
ReceiveOutput(ephemeral_public, stealth_public) ==
    /\ output' = [ ephemeral_public  |-> ephemeral_public,
                   stealth_public    |-> stealth_public,
                   ephemeral_private |-> 0,
                   recipient         |-> "unknown" ]
    /\ last' = [ NoCall EXCEPT !.op = "output" ]
    /\ UNCHANGED <<ffi_vars, pedersen, overflow_checks, c1, c2, proof, keyA, keyB>>

InitScan ==
    /\ InitRegistry
    /\ pedersen = NoInstances
    /\ overflow_checks = FALSE
    /\ c1 = commit(PedersenNew, 0, 0)
    /\ c2 = commit(PedersenNew, 0, 0)
    /\ last = NoCall
    /\ proof = NoProof
    /\ keyA \in Keypairs
    /\ keyB = NoKeypair
    /\ output = NoOutput

NextScan ==
    \/ \E R \in RistrettoPoint, P \in RistrettoPoint : ReceiveOutput(R, P)
    \/ DeriveStealthAddress("A")
    \/ ScanStealthAddress("A")

SpecScan == InitScan /\ [][NextScan]_vars

(* The FFI layer: threads create wallets and use them through handles *)

\* the creation calls that hold or wait for a mutex
CreationsInFlight ==
    { t \in Threads : calls[t].pc \in { "creation_lock1", "creation_lock2" } }

\* the mutexes after thread t has dropped its guards
Dropped(t) == [ m \in DOMAIN mutex |-> IF mutex[m] = t THEN 0 ELSE mutex[m] ]

\* create_wallet / import_private_key up to the first lock(): the wallet is
\* constructed, or the constructor's error is returned
BeginCreation(t, op, constructed) ==
    /\ calls[t].pc = "idle"
    /\ IF constructed
       THEN /\ Len(handles) + Cardinality(CreationsInFlight) < MaxWallets
            /\ calls' = [ calls EXCEPT ![t] =
                            [ NoFfiCall EXCEPT !.pc = "creation_lock1", !.op = op ] ]
       ELSE calls' = [ calls EXCEPT ![t] =
                         [ NoFfiCall EXCEPT !.result = CreationError(op) ] ]
    /\ UNCHANGED <<NEXT_ID, WALLETS, mutex, handles, core_vars>>

CreateWallet(t, constructed) == BeginCreation(t, "create_wallet", constructed)

ImportPrivateKey(t, constructed) == BeginCreation(t, "import_private_key", constructed)

\* the first lock() of a creation call; on NEXT_ID: let id = *next_id;
\* *next_id += 1
CreationLockFirst(t) ==
    LET c == calls[t]
        m == LockOrder(c.op)[1]
    IN  /\ c.pc = "creation_lock1"
        /\ mutex[m] = 0
        /\ mutex' = [ mutex EXCEPT ![m] = t ]
        /\ NEXT_ID' = IF m = "NEXT_ID" THEN IncrementNextId(NEXT_ID) ELSE NEXT_ID
        /\ calls' = [ calls EXCEPT ![t] =
                        [ c EXCEPT !.pc = "creation_lock2",
                                   !.id = IF m = "NEXT_ID" THEN NEXT_ID ELSE c.id ] ]
        /\ UNCHANGED <<WALLETS, handles, core_vars>>

\* the second lock() of a creation call, wallets.insert(id, ..) and
\* Ok(WalletHandle { id }), which drops both guards
CreationLockSecond(t) ==
    LET c  == calls[t]
        m  == LockOrder(c.op)[2]
        id == IF m = "NEXT_ID" THEN NEXT_ID ELSE c.id
    IN  /\ c.pc = "creation_lock2"
        /\ mutex[m] = 0
        /\ NEXT_ID' = IF m = "NEXT_ID" THEN IncrementNextId(NEXT_ID) ELSE NEXT_ID
        /\ WALLETS' = [ k \in DOMAIN WALLETS \cup { id } |->
                          IF k = id THEN [ wallet |-> c.op, locked_by |-> 0 ]
                                    ELSE WALLETS[k] ]
        /\ mutex' = Dropped(t)
        /\ calls' = [ calls EXCEPT ![t] =
                        [ NoFfiCall EXCEPT !.result = "Ok" ] ]
        /\ handles' = Append(handles, id)
        /\ UNCHANGED core_vars

\* a call of one of the six functions that take a handle, up to its lock()
BeginWalletOp(t, op) ==
    /\ calls[t].pc = "idle"
    /\ calls' = [ calls EXCEPT ![t] =
                    [ NoFfiCall EXCEPT !.pc = "wallets_lock", !.op = op ] ]
    /\ UNCHANGED <<NEXT_ID, WALLETS, mutex, handles, core_vars>>

\* let wallets = WALLETS.lock().unwrap();
\* let wallet = wallets.get(&handle.id).ok_or(WalletNotFound)?, for the
\* handle id the caller passed
LockWallets(t, id) ==
    LET c == calls[t] IN
    /\ c.pc = "wallets_lock"
    /\ mutex["WALLETS"] = 0
    /\ IF id \in DOMAIN WALLETS
       THEN /\ mutex' = [ mutex EXCEPT !["WALLETS"] = t ]
            /\ calls' = [ calls EXCEPT ![t] =
                            [ c EXCEPT !.pc = "wallet_lock", !.id = id ] ]
       ELSE /\ mutex' = mutex
            /\ calls' = [ calls EXCEPT ![t] =
                            [ c EXCEPT !.pc = "idle", !.op = "none", !.id = 0,
                                       !.result = "WalletNotFound" ] ]
    /\ UNCHANGED <<NEXT_ID, WALLETS, handles, core_vars>>

\* let wallet = wallet.lock().unwrap()
LockWallet(t) ==
    LET c == calls[t] IN
    /\ c.pc = "wallet_lock"
    /\ WALLETS[c.id].locked_by = 0
    /\ WALLETS' = [ WALLETS EXCEPT ![c.id].locked_by = t ]
    /\ calls' = [ calls EXCEPT ![t] =
                    [ c EXCEPT !.pc = "in_wallet", !.locked_wallet = TRUE ] ]
    /\ UNCHANGED <<NEXT_ID, mutex, handles, core_vars>>

\* the wallet's method returns, and the call returns Ok or the method's
\* error, which drops both guards
ReturnFromWallet(t, result) ==
    LET c == calls[t] IN
    /\ c.pc = "in_wallet"
    /\ result \in { "Ok" } \cup WalletOpErrors(c.op)
    /\ WALLETS' = [ WALLETS EXCEPT ![c.id].locked_by = 0 ]
    /\ mutex' = Dropped(t)
    /\ calls' = [ calls EXCEPT ![t] =
                    [ c EXCEPT !.pc = "idle", !.op = "none", !.id = 0,
                               !.result = result ] ]
    /\ UNCHANGED <<NEXT_ID, handles, core_vars>>

InitFfi ==
    /\ InitRegistry
    /\ pedersen = NoInstances
    /\ overflow_checks = FALSE
    /\ c1 = NoCommitment
    /\ c2 = NoCommitment
    /\ last = NoCall
    /\ proof = NoProof
    /\ keyA = NoKeypair
    /\ keyB = NoKeypair
    /\ output = NoOutput

\* the steps of thread t inside a call
CallStep(t) ==
    \/ CreationLockFirst(t)
    \/ CreationLockSecond(t)
    \/ \E id \in HandleIds : LockWallets(t, id)
    \/ LockWallet(t)
    \/ \E result \in { "Ok", "InsufficientFunds", "InvalidSignature",
                       "KeyDerivationFailed" } : ReturnFromWallet(t, result)

NextFfi ==
    \/ \E t \in Threads, constructed \in BOOLEAN : CreateWallet(t, constructed)
    \/ \E t \in Threads, constructed \in BOOLEAN : ImportPrivateKey(t, constructed)
    \/ \E t \in Threads, op \in WalletOps : BeginWalletOp(t, op)
    \/ \E t \in Threads : CallStep(t)

SpecFfi == InitFfi /\ [][NextFfi]_vars

\* every thread inside a call is scheduled, and gets a mutex that is free
\* again and again
SpecFfiFair == SpecFfi /\ \A t \in Threads : SF_vars(CallStep(t))

---------------------------------------------------------------------------
(* Properties of the commitment engine *)

\* value * G + blinding * H, computed in the integers
Opening(value, blinding) ==
    (value * RISTRETTO_BASEPOINT_POINT + blinding * HGenerator) % GroupOrder

\* c carries both secrets
HasSecrets(c) == IsSome(c.value) /\ IsSome(c.blinding)

\* c is what commit(v, b) returns for the v and b it carries
IsCommitOutput(c) ==
    /\ HasSecrets(c)
    /\ c = commit(PedersenNew, Unwrap(c.value), Unwrap(c.blinding))

\* C1: add_commitments(commit(v1,b1), commit(v2,b2)) returns a commitment
\* whose point equals commit(v1+v2, b1+b2).point and which verify_opening
\* accepts with (v1+v2, b1+b2), for all u64 v1, v2 (v1+v2 as the u64 sum)
C1_Homomorphism ==
    (/\ last.op = "add_commitments"
     /\ IsCommitOutput(last.x)
     /\ IsCommitOutput(last.y))
    => /\ ~last.panicked
       /\ IsSome(last.out)
       /\ LET v == (Unwrap(last.x.value) + Unwrap(last.y.value)) % TwoPow(U64Bits)
              b == (Unwrap(last.x.blinding) + Unwrap(last.y.blinding)) % GroupOrder
          IN  /\ Unwrap(last.out).point = commit(PedersenNew, v, b).point
              /\ verify_opening(PedersenNew, Unwrap(last.out), v, b)

\* C2: every commitment that carries both value and blinding satisfies
\* point = value * G + blinding * H
C2_PointMatchesSecrets ==
    \A c \in { c1, c2 } :
        HasSecrets(c) => c.point = Opening(Unwrap(c.value), Unwrap(c.blinding))

\* C8: subtract_commitments(c1, c2) with both secrets on both sides and
\* c1.value < c2.value does not panic; it returns point c1.point - c2.point,
\* no value, and blinding c1.blinding - c2.blinding modulo the group order
C8_SubtractUnderflow ==
    (/\ last.op = "subtract_commitments"
     /\ HasSecrets(last.x) /\ HasSecrets(last.y)
     /\ Unwrap(last.x.value) < Unwrap(last.y.value))
    => /\ ~last.panicked
       /\ IsSome(last.out)
       /\ Unwrap(last.out).point = (last.x.point - last.y.point) % GroupOrder
       /\ Unwrap(last.out).value = None
       /\ Unwrap(last.out).blinding =
              Some((Unwrap(last.x.blinding) - Unwrap(last.y.blinding)) % GroupOrder)

\* a subtraction has underflowed on the value side
C8_Witness ==
    /\ last.op = "subtract_commitments"
    /\ HasSecrets(last.x) /\ HasSecrets(last.y)
    /\ Unwrap(last.x.value) < Unwrap(last.y.value)
    /\ IsSome(last.out)
    /\ c1 = Unwrap(last.out)
    /\ IsSome(c1.blinding)

\* C9: add_commitments carries value1 + value2 and blinding1 + blinding2 when
\* both inputs carry both secrets, and neither a value nor a blinding in every
\* other case
C9_AddSecrets ==
    (last.op = "add_commitments")
    => /\ ~last.panicked
       /\ IsSome(last.out)
       /\ IF HasSecrets(last.x) /\ HasSecrets(last.y)
          THEN /\ Unwrap(last.out).value =
                      Some(Unwrap(last.x.value) + Unwrap(last.y.value))
               /\ Unwrap(last.out).blinding =
                      Some((Unwrap(last.x.blinding) + Unwrap(last.y.blinding))
                             % GroupOrder)
          ELSE /\ Unwrap(last.out).value = None
               /\ Unwrap(last.out).blinding = None

\* C10: for v1 >= v2, subtract_commitments(commit(v1,b1), commit(v2,b2)) opens
\* with (v1 - v2, b1 - b2) and carries Some(v1 - v2) and Some(b1 - b2)
C10_SubtractHomomorphism ==
    (/\ last.op = "subtract_commitments"
     /\ IsCommitOutput(last.x)
     /\ IsCommitOutput(last.y)
     /\ Unwrap(last.x.value) >= Unwrap(last.y.value))
    => LET v == Unwrap(last.x.value) - Unwrap(last.y.value)
           b == (Unwrap(last.x.blinding) - Unwrap(last.y.blinding)) % GroupOrder
       IN  /\ IsSome(last.out)
           /\ verify_opening(PedersenNew, Unwrap(last.out), v, b)
           /\ Unwrap(last.out).point = Opening(v, b)
           /\ Unwrap(last.out).value = Some(v)
           /\ Unwrap(last.out).blinding = Some(b)

\* two commit outputs with v1 > v2 and different blindings have been subtracted
C10_Witness ==
    /\ last.op = "subtract_commitments"
    /\ IsCommitOutput(last.x)
    /\ IsCommitOutput(last.y)
    /\ Unwrap(last.x.value) > Unwrap(last.y.value)
    /\ Unwrap(last.x.blinding) < Unwrap(last.y.blinding)
    /\ c1 = Unwrap(last.out)

\* C7: verify_opening(c, v, b) is true exactly when v * G + b * H equals
\* c.point; for c = commit(v0, b0) it accepts (v0, b0) and rejects (v, b0) with
\* v # v0 and (v0, b) with b # b0
C7_OpeningSoundness ==
    (last.op = "verify_opening")
    => /\ last.ret <=> (Opening(last.v, last.b) = last.x.point)
       /\ IsCommitOutput(last.x) =>
             LET v0 == Unwrap(last.x.value)
                 b0 == Unwrap(last.x.blinding)
             IN  /\ (last.v = v0 /\ last.b = b0) => last.ret
                 /\ (last.v # v0 /\ last.b = b0) => ~last.ret
                 /\ (last.v = v0 /\ last.b # b0) => ~last.ret

\* an opening with the right value and a wrong blinding has been rejected
C7_Witness ==
    /\ last.op = "verify_opening"
    /\ IsCommitOutput(last.x)
    /\ last.v = Unwrap(last.x.value)
    /\ last.b # Unwrap(last.x.blinding)
    /\ ~last.ret

---------------------------------------------------------------------------
(* Properties of range proofs *)

\* C3: verify(proof, commitment) returns true only if the committed value
\* lies in [0, 2^proof.bit_length); a proof that prove() did not make, or a
\* proof for bit length n paired with a commitment to a value >= 2^n, is
\* rejected
C3_VerifySound ==
    (last.op = "verify" /\ last.ret)
    => /\ IsSome(last.p.origin)
       /\ IsCommitOutput(last.x)
             => Unwrap(last.x.value) < TwoPow(last.p.rp.bit_length)

\* C4: a proof made by prove(value, blinding, n) is rejected for a commitment
\* whose point differs from commit(value, blinding).point
C4_ProofBoundToCommitment ==
    (/\ last.op = "verify"
     /\ IsSome(last.p.origin)
     /\ last.x.point # commit(PedersenNew, Unwrap(last.p.origin)[1],
                              Unwrap(last.p.origin)[2]).point)
    => ~last.ret

---------------------------------------------------------------------------
(* Properties of stealth addresses *)

\* the last call scanned, with the keys of `who`, an output derived for `rcpt`
Scanned(who, rcpt) ==
    /\ last.op = "scan_stealth_address"
    /\ last.who = who
    /\ output.recipient = rcpt

\* C5: a keypair that scans the output derived for its own public keys gets
\* Some(p) with p * G equal to stealth_public
C5_StealthCorrectness ==
    \A k \in Owners :
        Scanned(k, k)
        => /\ IsSome(last.out)
           /\ (Unwrap(last.out) * RISTRETTO_BASEPOINT_POINT) % GroupOrder
                  = output.stealth_public

\* a keypair with non-zero keys has scanned its own output, made with a
\* non-zero ephemeral scalar
C5_Witness ==
    /\ Scanned("A", "A")
    /\ keyA.view_private > 1
    /\ keyA.spend_private > 1
    /\ output.ephemeral_private > 1
    /\ IsSome(last.out)

\* A and B differ in their spend keys and in their view keys
DifferentKeys ==
    /\ keyA.spend_private # keyB.spend_private
    /\ keyA.view_private # keyB.view_private

\* hash_scalar + spend_private of keypair k for the published ephemeral key,
\* in the integers
OneTimeKey(k) ==
    HashToScalar((k.view_private * output.ephemeral_public) % GroupOrder)
        + k.spend_private

\* C6 as claimed: with different spend and view keys, scanning with one
\* keypair an output derived for the other returns None
C6_Original ==
    \A k \in Owners, r \in Owners :
        (Scanned(k, r) /\ k # r /\ DifferentKeys) => last.out = None

\* C6: with different spend and view keys, scanning with keypair k an output
\* derived for the other keypair r returns None, unless
\* H2S(k.view_private * R) + k.spend_private is congruent to
\* H2S(r.view_private * R) + r.spend_private modulo the group order, when it
\* returns Some of that scalar
C6_NonInterference ==
    \A k \in Owners, r \in Owners :
        (Scanned(k, r) /\ k # r /\ DifferentKeys)
        => IF (OneTimeKey(KeyOf(k)) - OneTimeKey(KeyOf(r))) % GroupOrder = 0
           THEN last.out = Some(OneTimeKey(KeyOf(k)) % GroupOrder)
           ELSE last.out = None

\* a keypair has scanned an output derived for the other, different, keypair
\* and found nothing
C6_Witness ==
    /\ Scanned("A", "B")
    /\ DifferentKeys
    /\ last.out = None

---------------------------------------------------------------------------
(* Properties of the balance equation *)

RECURSIVE SumValues(_)
\* the sum of the committed values, in the integers
SumValues(cs) ==
    IF cs = << >> THEN 0 ELSE Unwrap(Head(cs).value) + SumValues(Tail(cs))

RECURSIVE SumBlindings(_)
\* the sum of the blinding factors, in the integers
SumBlindings(cs) ==
    IF cs = << >> THEN 0 ELSE Unwrap(Head(cs).blinding) + SumBlindings(Tail(cs))

\* the inputs and the outputs of the transaction commit to equal sums of
\* values and to equal sums of blindings modulo the group order
Balanced ==
    /\ last.op \in {"transaction", "sum_inputs", "sum_outputs"}
    /\ SumValues(last.cs) = SumValues(last.ds)
    /\ (SumBlindings(last.cs) - SumBlindings(last.ds)) % GroupOrder = 0

\* C11: when the inputs and the outputs have equal value sums and equal
\* blinding sums, folding add_commitments over the inputs gives a point equal
\* to folding add_commitments over the outputs
C11_BalanceEquation ==
    Balanced =>
        /\ ~last.panicked
        /\ last.op = "sum_outputs" => (last.ret /\ c1.point = c2.point)

---------------------------------------------------------------------------
(* Properties of the range boundary *)

\* the bit lengths below the width of u64, where prove checks the value
CheckedLengths == 0 .. (U64Bits - 1)

\* the statement with the error kind the specification names
C12_Original ==
    (last.op = "prove" /\ last.n \in CheckedLengths) =>
        /\ last.v = TwoPow(last.n) - 1 => last.ret
        /\ last.v = TwoPow(last.n) =>
              (~last.ret /\ last.err = "ValueOutOfRange" /\ last.p = NoProof)

\* C12: for a bit length n below the width of u64, prove(2^n - 1, b, n)
\* succeeds, and prove(2^n, b, n) fails with CoreError::InvalidParameter and
\* returns no proof
C12_RangeBoundary ==
    (last.op = "prove" /\ last.n \in CheckedLengths) =>
        /\ last.v = TwoPow(last.n) - 1 => (last.ret /\ last.p # NoProof)
        /\ last.v = TwoPow(last.n) =>
              (~last.ret /\ last.err = "InvalidParameter" /\ last.p = NoProof)

C12_Witness ==
    /\ last.op = "prove"
    /\ last.n = U64Bits - 1
    /\ last.v = TwoPow(last.n)
    /\ ~last.ret

---------------------------------------------------------------------------
(* Properties of the wire encoding *)

\* bytes is the canonical encoding of a point
Canonical(bytes) == \E p \in RistrettoPoint : compress(p) = bytes

\* the statement with the error kind the specification names
C13_Original ==
    (last.op = "from_bytes" /\ ~Canonical(last.v)) =>
        (~last.ret /\ last.err = "InvalidEncoding" /\ last.out = None)

\* C13: from_bytes on a string that is not the canonical encoding of a point
\* fails with CoreError::Commitment and yields no commitment; it neither
\* succeeds nor panics
C13_RejectsInvalidBytes ==
    (last.op = "from_bytes" /\ ~Canonical(last.v)) =>
        /\ ~last.ret
        /\ last.err = "Commitment"
        /\ last.out = None
        /\ ~last.panicked

C13_Witness ==
    /\ last.op = "from_bytes"
    /\ last.v = GroupOrder + 1
    /\ ~last.ret
    /\ c2 \in FreshCommitments

\* C14: decoding the encoding of a commitment made by commit, add_commitments
\* or subtract_commitments succeeds and gives a commitment with the same point
C14_RoundTrip ==
    (last.op = "from_bytes" /\ last.v = to_bytes(c1)) =>
        /\ last.ret
        /\ IsSome(last.out)
        /\ Unwrap(last.out).point = c1.point

C14_Witness ==
    /\ last.op = "from_bytes"
    /\ last.v = to_bytes(c1)
    /\ last.ret
    /\ c1 \notin FreshCommitments
    /\ c1.point # 0
    /\ c2.point = c1.point

\* C15: a commitment with the same point as the encoded one, whatever its
\* value and blinding, has the same encoding
C15_EncodingHidesSecrets ==
    (last.op = "to_bytes" /\ c2.point = last.x.point) =>
        to_bytes(c2) = last.v

C15_Witness ==
    /\ last.op = "to_bytes"
    /\ c2.point = last.x.point
    /\ IsSome(last.x.value)
    /\ IsSome(last.x.blinding)
    /\ c2.value # last.x.value
    /\ c2.blinding # last.x.blinding
    /\ to_bytes(c2) = last.v

\* C16: a commitment obtained by decoding, with from_bytes or from_point, has
\* neither value nor blinding
C16_DecodedHasNoSecrets ==
    (last.op \in {"from_bytes", "from_point"} /\ IsSome(last.out)) =>
        /\ Unwrap(last.out).value = None
        /\ Unwrap(last.out).blinding = None
        /\ c2 = Unwrap(last.out)

C16_Witness ==
    /\ last.op = "from_bytes"
    /\ last.ret
    /\ c2 = Unwrap(last.out)
    /\ c2.point # 0
    /\ c2.value = None
    /\ c2.blinding = None

---------------------------------------------------------------------------
(* Properties of batch verification and of completeness *)

\* C17: verify_batch returns false whenever the proofs and the commitments
\* differ in number, whatever they are
C17_BatchLengthMismatch ==
    (last.op = "verify_batch" /\ Len(last.ps) # Len(last.cs)) => ~last.ret

C17_Witness ==
    /\ last.op = "verify_batch"
    /\ Len(last.ps) = MaxBatch
    /\ Len(last.cs) = MaxBatch - 1
    /\ ~last.ret

\* C18: for as many proofs as commitments, verify_batch returns true exactly
\* when every proof verifies against the commitment at its position, and its
\* result is a single boolean
C18_BatchIsConjunction ==
    (last.op = "verify_batch" /\ Len(last.ps) = Len(last.cs)) =>
        /\ last.ret \in BOOLEAN
        /\ last.ret <=> \A i \in 1 .. Len(last.ps) : verify(last.ps[i], last.cs[i])

C18_Witness ==
    /\ last.op = "verify_batch"
    /\ Len(last.ps) = MaxBatch
    /\ Len(last.cs) = MaxBatch
    /\ last.ps[1] # last.ps[2]
    /\ last.cs[1] # last.cs[2]
    /\ last.ret

\* the proof was made by prove for the value and blinding the commitment
\* commits to
ProvedFor(p, c) ==
    /\ IsSome(p.origin)
    /\ c = commit(PedersenNew, Unwrap(p.origin)[1], Unwrap(p.origin)[2])

\* C20: prove succeeds when the value is below 2^n or n is at least the width
\* of u64, and its proof verifies against the commitment to the same value
\* and blinding; BalanceCommitment::new succeeds for every balance, and its
\* verify returns true
C20_Completeness ==
    /\ (last.op = "prove" /\ (last.v < TwoPow(last.n) \/ last.n >= U64Bits)) =>
           (last.ret /\ last.p = proof /\ proof.rp.bit_length = last.n)
    /\ (last.op = "verify" /\ ProvedFor(last.p, last.x)) => last.ret
    /\ last.op = "BalanceCommitment::new" =>
           (last.ret /\ last.p = proof /\ ProvedFor(proof, c2)
              /\ c2.value = Some(last.v))
    /\ (last.op = "BalanceCommitment::verify" /\ ProvedFor(last.p, last.x)) =>
           last.ret

C20_Witness ==
    /\ last.op = "BalanceCommitment::verify"
    /\ ProvedFor(last.p, last.x)
    /\ last.x.value = Some(U64Max)
    /\ last.p.rp.bit_length = U64Bits
    /\ last.ret

---------------------------------------------------------------------------
(* Properties of the generators *)

\* C19: all instances, whichever thread created them and in whatever order,
\* hold the same generators G and H, and a commitment made by one instance
\* is opened by every instance with the value and blinding it was made for
C19_SameGenerators ==
    /\ \A s, t \in Threads :
           (IsSome(pedersen[s]) /\ IsSome(pedersen[t])) =>
               /\ Unwrap(pedersen[s]).g = Unwrap(pedersen[t]).g
               /\ Unwrap(pedersen[s]).h = Unwrap(pedersen[t]).h
    /\ (last.op = "verify_opening" /\ last.x.value = Some(last.v)
          /\ last.x.blinding = Some(last.b)) => last.ret

C19_Witness ==
    /\ \A t \in Threads : IsSome(pedersen[t])
    /\ last.op = "verify_opening"
    /\ last.n = MaxThreads
    /\ last.x = commit(Unwrap(pedersen[1]), last.v, last.b)
    /\ last.v # 0
    /\ last.b # 0
    /\ last.ret

---------------------------------------------------------------------------
(* Properties of scanning *)

\* H2S(view_private * R) for keypair k and the published ephemeral key R
ScanHash(k) ==
    HashToScalar((k.view_private * output.ephemeral_public) % GroupOrder)

\* H2S(view_private * R) * G + spend_public is the published stealth key
ScanMatches(k) ==
    (ScanHash(k) * RISTRETTO_BASEPOINT_POINT + k.spend_public) % GroupOrder
        = output.stealth_public

\* C21: for any published pair, derived for the keypair or not, scanning
\* returns Some(p) exactly when H2S(view_private * R) * G + spend_public is
\* the stealth key; then p is H2S(view_private * R) + spend_private and
\* p * G is the stealth key; otherwise it returns None
C21_ScanExact ==
    last.op = "scan_stealth_address" =>
        IF ScanMatches(KeyOf(last.who))
        THEN /\ last.out
                  = Some((ScanHash(KeyOf(last.who))
                            + KeyOf(last.who).spend_private) % GroupOrder)
             /\ (Unwrap(last.out) * RISTRETTO_BASEPOINT_POINT) % GroupOrder
                    = output.stealth_public
        ELSE last.out = None

\* a pair of unknown origin matched the keypair
C21_Witness ==
    /\ last.op = "scan_stealth_address"
    /\ output.recipient = "unknown"
    /\ keyA.spend_private > 1
    /\ keyA.view_private > 1
    /\ output.ephemeral_public > 1
    /\ IsSome(last.out)

---------------------------------------------------------------------------
(* Properties of absent values *)

\* the last call added or subtracted two commitments of which one had no
\* value
CombinedAbsent ==
    /\ last.op \in {"add_commitments", "subtract_commitments"}
    /\ (last.x.value = None \/ last.y.value = None)

\* C22: adding or subtracting commitments of which one has no value gives a
\* commitment with no value, whose point is the sum or the difference of the
\* operand points; so a value once absent stays absent in the accumulator
C22_AbsentValueSticky ==
    CombinedAbsent =>
        /\ ~last.panicked
        /\ IsSome(last.out)
        /\ Unwrap(last.out).value = None
        /\ c1 = Unwrap(last.out)
        /\ Unwrap(last.out).point
               = IF last.op = "add_commitments"
                 THEN (last.x.point + last.y.point) % GroupOrder
                 ELSE (last.x.point - last.y.point) % GroupOrder

\* the accumulator had no value and a commitment with a value was added to it
C22_Witness ==
    /\ last.op = "add_commitments"
    /\ last.x.value = None
    /\ IsSome(last.y.value)
    /\ Unwrap(last.y.value) > 0
    /\ last.y.point # 0
    /\ c1.value = None
    /\ c1.point = (last.x.point + last.y.point) % GroupOrder

---------------------------------------------------------------------------
(* Properties of the range check *)

\* C23: prove fails exactly when the bit length is below the width of u64 and
\* the value is at least 2^bit_length; for every bit length from the width of
\* u64 upwards it succeeds for every value, without panicking; a proof it
\* returns records the bit length asked for
C23_ProveFailsExactly ==
    last.op = "prove" =>
        /\ ~last.panicked
        /\ ~last.ret <=> (last.n < U64Bits /\ last.v >= TwoPow(last.n))
        /\ last.n = 0 => (last.ret <=> last.v = 0)
        /\ last.ret => (last.p # NoProof /\ last.p.rp.bit_length = last.n)
        /\ ~last.ret => last.p = NoProof

\* the largest value was proved for a bit length above the width of u64
C23_Witness ==
    /\ last.op = "prove"
    /\ last.n > U64Bits
    /\ last.v = U64Max
    /\ last.ret
    /\ proof.rp.bit_length = last.n

---------------------------------------------------------------------------
(* Properties of the FFI wallet registry *)

\* the ids of the handles returned so far
Returned == { handles[i] : i \in 1 .. Len(handles) }

\* the ids taken from the counter by creation calls that have not returned
TakenInFlight == { calls[t].id : t \in { u \in Threads : calls[u].id # 0 /\ calls[u].pc = "creation_lock2" } }

\* the ids handed out are 1, 2, ... without gap or repetition, every handle
\* returned names a wallet of the map, and the map holds nothing else
RegistryInv ==
    /\ \A i, j \in 1 .. Len(handles) : handles[i] = handles[j] => i = j
    /\ \A i \in 1 .. Len(handles) : handles[i] = i
    /\ Returned \cup TakenInFlight = 1 .. (NEXT_ID - 1)
    /\ Returned \cap TakenInFlight = { }
    /\ DOMAIN WALLETS = Returned

\* a step removes or replaces no wallet; a call that returns a handle has
\* just inserted its id as a new key; a creation call that fails changes
\* neither the counter nor the map
RegistryStep ==
    /\ \A id \in DOMAIN WALLETS :
           /\ id \in DOMAIN WALLETS'
           /\ WALLETS'[id].wallet = WALLETS[id].wallet
    /\ handles' # handles =>
           /\ Len(handles') = Len(handles) + 1
           /\ handles'[Len(handles')] \in DOMAIN WALLETS' \ DOMAIN WALLETS
    /\ \A t \in Threads :
           (calls'[t] # calls[t]
              /\ calls'[t].result \in { CreationError(op) : op \in CreationOps }) =>
               (NEXT_ID' = NEXT_ID /\ WALLETS' = WALLETS /\ handles' = handles)

\* C24: in every interleaving of create_wallet and import_private_key calls
\* the successful calls return distinct ids, which are 1, 2, ... in the order
\* the counter was taken, each id returned is a key of WALLETS from its
\* return on, no entry is replaced or removed, and a failed call changes
\* neither the counter nor WALLETS
C24_RegistryIds == [](RegistryInv) /\ [][RegistryStep]_vars

\* the registry is full: wallets made by both creation calls, from two
\* threads
C24_Witness ==
    /\ Len(handles) = MaxWallets
    /\ \A t \in Threads : calls[t].result = "Ok" /\ ~calls[t].locked_wallet
    /\ WALLETS[1].wallet = "create_wallet"
    /\ WALLETS[2].wallet = "import_private_key"
    /\ NEXT_ID = MaxWallets + 1

\* thread t holds the mutex of some wallet
HoldsWallet(t) == \E id \in DOMAIN WALLETS : WALLETS[id].locked_by = t

\* NEXT_ID is held only by creation calls, and WALLETS by a creation call
\* only together with NEXT_ID; a wallet's mutex is held only together with
\* WALLETS, by a call that got the wallet from the map; a thread in no call
\* holds nothing, and a call that returned WalletNotFound locked no wallet
LockDiscipline ==
    \A t \in Threads :
        /\ mutex["NEXT_ID"] = t =>
               (calls[t].op \in CreationOps /\ calls[t].pc = "creation_lock2")
        /\ (mutex["WALLETS"] = t /\ calls[t].op \in CreationOps) =>
               mutex["NEXT_ID"] = t
        /\ (mutex["WALLETS"] = t /\ calls[t].op \in WalletOps) =>
               calls[t].pc \in { "wallet_lock", "in_wallet" }
        /\ HoldsWallet(t) => (mutex["WALLETS"] = t /\ calls[t].pc = "in_wallet")
        /\ calls[t].pc = "idle" =>
               (mutex["NEXT_ID"] # t /\ mutex["WALLETS"] # t /\ ~HoldsWallet(t))
        /\ calls[t].result = "WalletNotFound" => ~calls[t].locked_wallet

\* C25: creation calls lock NEXT_ID then WALLETS, the other calls WALLETS
\* then the wallet's mutex, never the other way round; a call whose handle
\* names no wallet returns WalletNotFound without locking a wallet; and,
\* under fair scheduling, every call returns
C25_DeadlockFree ==
    /\ [](LockDiscipline)
    /\ \A t \in Threads : (calls[t].pc # "idle") ~> (calls[t].pc = "idle")

\* a creation call holds NEXT_ID and waits for WALLETS, which a call inside
\* a wallet holds, after a call with an unknown handle returned
C25_Witness ==
    /\ calls[1].pc = "creation_lock2"
    /\ mutex["NEXT_ID"] = 1
    /\ mutex["WALLETS"] = 2
    /\ calls[2].pc = "in_wallet"
    /\ WALLETS[calls[2].id].locked_by = 2

====
